---- MODULE Spec2Model ----
(***************************************************************************)
(* A model of smartmirror.py: the Clock, Weather and News widgets of the   *)
(* FullscreenWindow, each refreshing itself through Tk's after(), all on   *)
(* the one thread that runs the Tk event loop.                             *)
(*                                                                         *)
(* Everything the program reads from outside (HTTP responses, the feed,    *)
(* the wall clock, image files, key presses) is an input chosen with \E    *)
(* from the sets below; the locales installed on the machine are fixed     *)
(* when the process starts.  A call that raises is modelled by the name    *)
(* of the exception's class; a call that never returns by "hang".          *)
(***************************************************************************)
EXTENDS Integers, Sequences, FiniteSets, TLC

VARIABLES
    LATITUDE,       \* the module constant of line 49, NONE when unset
    LONGITUDE,      \* the module constant of line 50, NONE when unset
    phase,          \* where the main thread is: constructing "Clock", "Weather",
                    \* "News", in "mainloop", or "crashed" (an exception escaped)
    blocked,        \* the callback whose network request never returns, or NONE
    pending,        \* pending[fn]: the delays (ms) of the after() timers of fn
    clock,          \* the Clock widget: its caches and what its labels show
    locale,         \* the process-wide locale (name), the state of
                    \* LOCALE_LOCK (locked) and the locales the machine
                    \* has installed (installed)
    threads,        \* the callers of setlocale() other than Clock.tick:
                    \* where each is in the context manager (pc), the name
                    \* it asked for, its variable saved, how its try block
                    \* ended (exc); history: found, the locale on entry
    fullscreen,     \* FullscreenWindow: self.state and the "-fullscreen"
                    \* attribute of the Tk window; history: key, the last
                    \* key handled, and n, the number of keys handled mod 2
    time,           \* left[fn]: the time (ms) until each timer of fn is due;
                    \* since[fn]: the time since fn last ran, up to POLL_MS;
                    \* waits: the waits so far that ended before the last
                    \* pending timer was due
    conv,           \* the temperature conversions applied to one reading
    weather,        \* the Weather widget: its caches and what its labels show
    news,           \* the children of News.headlines_container, oldest first
    wlog,           \* history of the last get_weather run (not program state):
                    \* calls: the labels it configured; exc: how its try
                    \* block ended; requests: the hosts it asked; coords:
                    \* the coordinates in its weather request; drawn: the
                    \* fields it extracted, when exc is "none"; located:
                    \* actual_location2 after line 227; via: its caller;
                    \* escaped: an exception left it; n: its number mod 2
    nlog,           \* history of the last get_headlines run (not program state)
    clog            \* history of the last tick (not program state): calls:
                    \* the labels it configured; at: the local times at
                    \* its three strftime calls; exc; n: its number mod 2

vars == <<LATITUDE, LONGITUDE, phase, blocked, pending, clock, locale,
          threads, fullscreen, time, conv, weather, news, wlog, nlog, clog>>

-----------------------------------------------------------------------------
(* Values shared by the widgets.                                           *)

\* Python's None (also: no extracted fields, nothing blocked).
NONE == "<None>"

\* The delay of Clock.tick's after() call.
TICK_MS == 200

\* The delay of the after() call of get_weather and of get_headlines.
POLL_MS == 600000

\* The callbacks the widgets hand to after().
Callbacks == {"tick", "get_weather", "get_headlines"}

\* Exception classes a step of a poll can raise; all derive from Exception.
ExceptionClasses ==
    {"ConnectionError", "JSONDecodeError", "KeyError", "ValueError",
     "OSError", "AttributeError"}

\* The element of a one-element set: the value of a step that is computed
\* once and used by the steps after it.
Only(S) == CHOOSE y \in S : TRUE

\* after(ms, fn): one more timer for fn.
After(p, ms, fn) == [p EXCEPT ![fn] = Append(@, ms)]

\* A variant of Taken: the timer stays registered when it is run.
Kept(p, fn) == p

\* The event loop takes the oldest timer of fn to run it.
Taken(p, fn) == [p EXCEPT ![fn] = Tail(@)]

\* A variant of Reschedule: the after() call as the last statement of the
\* try block, which an exception skips.
RescheduleInsideTry(p, exc, fn) ==
    IF exc = "none" THEN After(p, POLL_MS, fn) ELSE p

\* self.after(600000, fn) of lines 290 and 340: the statement follows the
\* try statement, so it runs whether the try block raised (exc) or not.
Reschedule(p, exc, fn) == After(p, POLL_MS, fn)

-----------------------------------------------------------------------------
(* Weather.                                                                *)

icon_lookup ==
    [c \in {"01d", "01n", "02d", "02n", "03d", "03n", "04d", "04n", "09d",
            "09n", "10d", "10n", "11d", "11n", "13d", "13n", "50d", "50n"} |->
        CASE c = "01d" -> "assets/Sun.png"
          [] c = "01n" -> "assets/Moon.png"
          [] c = "02d" -> "assets/PartlySunny.png"
          [] c = "02n" -> "assets/PartlyMoon.png"
          [] c \in {"03d", "03n", "04d", "04n"} -> "assets/Cloud.png"
          [] c \in {"09d", "09n", "10d", "10n"} -> "assets/Rain.png"
          [] c \in {"11d", "11n"} -> "assets/Storm.png"
          [] c \in {"13d", "13n"} -> "assets/Snow.png"
          [] c \in {"50d", "50n"} -> "assets/Haze.png"]

\* icon_lookup.get(icon_id, None) or None
IconGet(icon_id) ==
    IF icon_id \in DOMAIN icon_lookup /\ icon_lookup[icon_id] # ""
    THEN icon_lookup[icon_id] ELSE NONE

\* A variant of IntOfTenths: the reading rounded to the nearest integer.
RoundOfTenths(t) == (t + 5) \div 10

\* int(x) of a reading given in tenths: truncation toward zero.
IntOfTenths(t) == IF t >= 0 THEN t \div 10 ELSE -((-t) \div 10)

convert_kelvin_to_celsius(kelvin_temp) == kelvin_temp - 273

\* A variant of convert_kelvin_to_fahrenheit: whole degrees, computed in
\* integers.
FahrenheitInIntegers(kelvin_temp) ==
    10 * ((9 * (kelvin_temp - 273)) \div 5 + 32)

\* convert_kelvin_to_fahrenheit, line 295: 1.8 * (kelvin_temp - 273) + 32,
\* in tenths of a degree so that the arithmetic is exact.
convert_kelvin_to_fahrenheit(kelvin_temp) == 18 * (kelvin_temp - 273) + 320

\* "%s%s" % (str(celsius_temp), degree_sign)
TemperatureText(celsius_temp) == ToString(celsius_temp) \o "°"

\* "%s, %s" % (city, region_code)
LocationText(city, region_code) == city \o ", " \o region_code

\* Weather.__init__: empty caches, labels created without text or image.
WeatherInit ==
    [temperature |-> "", forecast |-> "", actual_location |-> "",
     currently |-> "", icon |-> "",
     temperature_lbl |-> "", icon_lbl |-> "", currently_lbl |-> "",
     forecast_lbl |-> "", actual_location_lbl |-> ""]

WeatherLabels ==
    {"temperature_lbl", "icon_lbl", "currently_lbl", "forecast_lbl",
     "actual_location_lbl"}

\* A variant of UsesGeoIp: one missing coordinate is enough.
UsesGeoIpIfAnyUnset(lat, lon) == lat = NONE \/ lon = NONE

\* The static path is taken unless both coordinates are None (line 213).
UsesGeoIp(lat, lon) == lat = NONE /\ lon = NONE

\* get_ip: the named exceptions are caught and a message returned in place
\* of the address; any other exception leaves get_ip.
GetIpCatches(e) == e \in {"JSONDecodeError", "KeyError"}

get_ip(ip) ==
    IF ip.exc = "none" THEN [exc |-> "none", ret |-> ip.ip]
    ELSE IF GetIpCatches(ip.exc)
         THEN [exc |-> "none", ret |-> "Error: Cannot get ip."]
         ELSE [exc |-> ip.exc, ret |-> NONE]

\* A value as an f-string renders it.
Formatted(v) == IF v = NONE THEN "None" ELSE v

\* Lines 213-236: the requests made before the weather request,
\* actual_location2 as the geo-IP path leaves it, and the coordinates put
\* into the URL of the weather request.
\* Result: exc ("none", "hang" or a class), requests made, loc, coords.
Locate(lat, lon, in) ==
    IF UsesGeoIp(lat, lon)
    THEN LET ip == get_ip(in.ip) IN
         IF ip.exc # "none"
         THEN [exc |-> ip.exc, requests |-> <<"jsonip.com">>, loc |-> NONE,
               coords |-> <<>>]
         ELSE IF in.geo.exc # "none"
         THEN [exc |-> in.geo.exc,
               requests |-> <<"jsonip.com", "api.freegeoip.app">>,
               loc |-> NONE, coords |-> <<>>]
         ELSE [exc |-> "none",
               requests |-> <<"jsonip.com", "api.freegeoip.app">>,
               loc |-> LocationText(in.geo.obj.city, in.geo.obj.region_code),
               coords |-> <<Formatted(in.geo.obj.latitude),
                            Formatted(in.geo.obj.longitude)>>]
    ELSE [exc |-> "none", requests |-> <<>>, loc |-> NONE,
          coords |-> <<Formatted(lat), Formatted(lon)>>]

\* Lines 243-252: the fields of the response; actual_location2 is assigned
\* weather_obj['name'] whatever Locate left in it.
Extract(loc, obj) ==
    [temperature |->
        TemperatureText(convert_kelvin_to_celsius(IntOfTenths(obj.temp))),
     currently |-> obj.main,
     forecast |-> obj.description,
     actual_location |-> obj.name,
     icon_id |-> obj.icon]

\* Lines 254-268.  Result: the widget, the labels configured, exc.
IconStep(w, icon_id, img) ==
    LET icon2 == IconGet(icon_id) IN
    IF icon2 # NONE
    THEN IF w.icon # icon2
         THEN IF img = "ok"
              THEN [w |-> [w EXCEPT !.icon = icon2, !.icon_lbl = icon2],
                    calls |-> {"icon_lbl"}, exc |-> "none"]
              ELSE [w |-> [w EXCEPT !.icon = icon2],
                    calls |-> {}, exc |-> img]
         ELSE [w |-> w, calls |-> {}, exc |-> "none"]
    ELSE [w |-> [w EXCEPT !.icon_lbl = ""],
          calls |-> {"icon_lbl"}, exc |-> "none"]

\* One of the three plain text fields, lines 270-278.
TextStep(r, cache, lbl, new) ==
    IF r.w[cache] # new
    THEN [r EXCEPT !.w = [@ EXCEPT ![cache] = new, ![lbl] = new],
                   !.calls = @ \cup {lbl}]
    ELSE r

\* Lines 279-285.
LocationStep(r, actual_location2) ==
    IF r.w.actual_location # actual_location2
    THEN IF actual_location2 = ", "
         THEN [r EXCEPT !.w = [@ EXCEPT
                          !.actual_location = "Cannot Pinpoint Location",
                          !.actual_location_lbl = "Cannot Pinpoint Location"],
                        !.calls = @ \cup {"actual_location_lbl"}]
         ELSE [r EXCEPT !.w = [@ EXCEPT
                          !.actual_location = actual_location2,
                          !.actual_location_lbl = actual_location2],
                        !.calls = @ \cup {"actual_location_lbl"}]
    ELSE r

\* Lines 269-285 on extracted fields f, from r: the three texts and the
\* location, each stage working on the result of the one before it.
Texts(r, f) ==
    Only({LocationStep(t, f.actual_location) :
            t \in {TextStep(d, "temperature", "temperature_lbl",
                            f.temperature) :
              d \in {TextStep(c, "forecast", "forecast_lbl", f.forecast) :
                c \in {TextStep(r, "currently", "currently_lbl",
                                f.currently)}}}})

\* A variant of Redraw: the text fields first, the icon last.
RedrawTextFirst(w, f, img) ==
    Only({Only({[w |-> i.w, calls |-> l.calls \cup i.calls, exc |-> i.exc] :
                  i \in {IconStep(l.w, f.icon_id, img)}}) :
            l \in {Texts([w |-> w, calls |-> {}, exc |-> "none"], f)}})

\* Lines 254-285 on extracted fields f: the icon, then (unless loading the
\* image raised) the texts.
Redraw(w, f, img) ==
    Only({IF i.exc # "none" THEN i ELSE Texts(i, f) :
            i \in {IconStep(w, f.icon_id, img)}})

\* Lines 243-285 once the weather response is parsed: the fields are
\* extracted and drawn.  l is what Locate left.
ExtractAndRedraw(w, l, in) ==
    Only({Only({[w |-> r.w, calls |-> r.calls, exc |-> r.exc,
                 requests |-> Append(l.requests, "api.openweathermap.org"),
                 coords |-> l.coords, extracted |-> <<f>>,
                 located |-> l.loc] :
                  r \in {Redraw(w, f, in.img)}}) :
            f \in {Extract(l.loc, in.wx.obj)}})

\* The try block of get_weather, lines 212-285.
\* Result: w (the widget after it), calls (labels configured), exc ("none",
\* "hang" or the class raised), requests (hosts asked), coords (the
\* latitude and longitude in the URL of the weather request, empty when no
\* weather request was made), extracted (the fields of lines 243-252 in a
\* sequence, empty when the block did not get that far), located
\* (actual_location2 as line 227 leaves it, or NONE).
WeatherTry(w, lat, lon, in) ==
    Only({IF l.exc # "none"
          THEN [w |-> w, calls |-> {}, exc |-> l.exc,
                requests |-> l.requests, coords |-> <<>>,
                extracted |-> <<>>, located |-> l.loc]
          ELSE IF in.wx.exc # "none"
          THEN [w |-> w, calls |-> {}, exc |-> in.wx.exc,
                requests |-> Append(l.requests, "api.openweathermap.org"),
                coords |-> l.coords, extracted |-> <<>>, located |-> l.loc]
          ELSE ExtractAndRedraw(w, l, in) :
            l \in {Locate(lat, lon, in)}})

\* A variant of WeatherCatches: the except clause of get_ip.
WeatherCatchesLikeGetIp(e) == e \in {"JSONDecodeError", "KeyError"}

\* except Exception (line 286).
WeatherCatches(e) == e \in ExceptionClasses

\* get_weather run by the main thread on input in: the try block, the
\* except clause and the after() call of line 290.  via is "constructor"
\* (line 196) or "timer"; p is pending without the timer being run.
\* A request that hangs keeps the thread inside get_weather for ever.
get_weather(in, via, p) ==
    \E r \in {WeatherTry(weather, LATITUDE, LONGITUDE, in)} :
    \E log \in {[calls |-> r.calls, exc |-> r.exc, requests |-> r.requests,
                 coords |-> r.coords,
                 drawn |-> IF r.exc = "none" THEN r.extracted ELSE <<>>,
                 located |-> r.located,
                 via |-> via, escaped |-> FALSE, n |-> 1 - wlog.n]} :
        IF r.exc = "hang"
        THEN /\ blocked' = "get_weather"
             /\ pending' = p
             /\ wlog' = log
             /\ UNCHANGED <<weather, phase>>
        ELSE IF r.exc = "none" \/ WeatherCatches(r.exc)
        THEN /\ weather' = r.w
             /\ pending' = Reschedule(p, r.exc, "get_weather")
             /\ wlog' = log
             /\ phase' = IF via = "constructor" THEN "News" ELSE phase
             /\ UNCHANGED blocked
        ELSE /\ weather' = r.w
             /\ pending' = p
             /\ wlog' = [log EXCEPT !.escaped = TRUE]
             /\ phase' = IF via = "constructor" THEN "crashed" ELSE phase
             /\ UNCHANGED blocked

-----------------------------------------------------------------------------
(* News.                                                                   *)

\* feed.entries[0:5]
FIRST_N == 5

Min(a, b) == IF a <= b THEN a ELSE b

\* A child of headlines_container: a NewsHeadline frame.  packed is FALSE
\* for a frame whose constructor raised after Frame.__init__ (line 346):
\* it is a child of the container but shows nothing.
Row(title, packed) == [event_name |-> title, packed |-> packed]

\* What the container displays: the titles of its packed children.
RECURSIVE Displayed(_)
Displayed(children) ==
    IF children = <<>> THEN <<>>
    ELSE IF Head(children).packed
         THEN <<Head(children).event_name>> \o Displayed(Tail(children))
         ELSE Displayed(Tail(children))

\* A variant of DestroyChildren: the rows are appended to the old ones.
KeepChildren(children) == children

\* Lines 324-325: widget.destroy() for every child.
DestroyChildren(children) == <<>>

\* Lines 333-335 on the posts still to show; k is the number of the row
\* being built, img the row (0: none) whose icon cannot be loaded.
\* A post without a title (NONE) raises when post.title is read.
RECURSIVE BuildRows(_, _, _, _)
BuildRows(children, posts, k, img) ==
    IF posts = <<>> THEN [children |-> children, exc |-> "none"]
    ELSE IF Head(posts) = NONE
         THEN [children |-> children, exc |-> "AttributeError"]
    ELSE IF k = img
         THEN [children |-> Append(children, Row(Head(posts), FALSE)),
               exc |-> "OSError"]
    ELSE BuildRows(Append(children, Row(Head(posts), TRUE)),
                   Tail(posts), k + 1, img)

\* The try block of get_headlines, lines 322-335.
NewsTry(children, in) ==
    LET cleared == DestroyChildren(children) IN
    IF in.feed.exc # "none"
    THEN [children |-> cleared, exc |-> in.feed.exc]
    ELSE BuildRows(cleared,
                   SubSeq(in.feed.entries, 1,
                          Min(FIRST_N, Len(in.feed.entries))),
                   1, in.img)

\* except Exception (line 336).
NewsCatches(e) == e \in ExceptionClasses

\* get_headlines run by the main thread, as get_weather above.
get_headlines(in, via, p) ==
    \E r \in {NewsTry(news, in)} :
    \E log \in {[exc |-> r.exc, via |-> via, escaped |-> FALSE,
                 entries |-> IF in.feed.exc = "none" THEN in.feed.entries
                             ELSE <<>>,
                 n |-> 1 - nlog.n]} :
        IF r.exc = "hang"
        THEN /\ blocked' = "get_headlines"
             /\ news' = r.children
             /\ pending' = p
             /\ nlog' = log
             /\ UNCHANGED phase
        ELSE IF r.exc = "none" \/ NewsCatches(r.exc)
        THEN /\ news' = r.children
             /\ pending' = Reschedule(p, r.exc, "get_headlines")
             /\ nlog' = log
             /\ phase' = IF via = "constructor" THEN "mainloop" ELSE phase
             /\ UNCHANGED blocked
        ELSE /\ news' = r.children
             /\ pending' = p
             /\ nlog' = [log EXCEPT !.escaped = TRUE]
             /\ phase' = IF via = "constructor" THEN "crashed" ELSE phase
             /\ UNCHANGED blocked

-----------------------------------------------------------------------------
(* Clock.                                                                  *)

UI_LOCALE == ""

TIME_FORMAT == 12

Pad2(n) == IF n < 10 THEN "0" \o ToString(n) ELSE ToString(n)

WeekdayName(d) ==
    <<"Monday", "Tuesday", "Wednesday", "Thursday", "Friday", "Saturday",
      "Sunday">>[d]

MonthAbbr(m) ==
    <<"Jan", "Feb", "Mar", "Apr", "May", "Jun", "Jul", "Aug", "Sep", "Oct",
      "Nov", "Dec">>[m]

\* time.strftime('%I:%M%p') and time.strftime('%H:%M') of the local time t.
TimeText(t) ==
    IF TIME_FORMAT = 12
    THEN Pad2(IF t.hour % 12 = 0 THEN 12 ELSE t.hour % 12) \o ":"
         \o Pad2(t.min) \o (IF t.hour < 12 THEN "AM" ELSE "PM")
    ELSE Pad2(t.hour) \o ":" \o Pad2(t.min)

\* time.strftime('%A')
DayText(t) == WeekdayName(t.wday)

\* time.strftime(DATE_FORMAT), DATE_FORMAT = "%b %d, %Y"
DateText(t) ==
    MonthAbbr(t.mon) \o " " \o Pad2(t.mday) \o ", " \o ToString(t.year)

\* Clock.__init__, lines 97-122.
ClockInit ==
    [time_old |-> "", day_of_week_old |-> "", date_old |-> "",
     time_lbl |-> "", day_of_wk_lbl |-> "", date_lbl |-> ""]

\* One sub-label, lines 137-145.  r holds the widget (c) and the labels
\* configured so far (calls).
ClockStep(r, cache, lbl, new) ==
    IF new # r.c[cache]
    THEN [c |-> [r.c EXCEPT ![cache] = new, ![lbl] = new],
          calls |-> r.calls \cup {lbl}]
    ELSE r

\* Lines 128-145.  Each strftime call reads the wall clock for itself:
\* at[1], at[2] and at[3] are the local times of the three calls.
TickBody(c, at) ==
    ClockStep(
      ClockStep(
        ClockStep([c |-> c, calls |-> {}],
                  "time_old", "time_lbl", TimeText(at[1])),
        "day_of_week_old", "day_of_wk_lbl", DayText(at[2])),
      "date_old", "date_lbl", DateText(at[3]))

-----------------------------------------------------------------------------
(* The locale.                                                             *)

\* The locale the process starts in.
STARTUP_LOCALE == "C"

\* The locale the environment (LANG) names: what the name '' stands for.
ENV_LOCALE == "es_AR.UTF-8"

\* A locale no machine has.
NO_LOCALE == "xx_XX"

Resolved(name) == IF name = "" THEN ENV_LOCALE ELSE name

\* locale.setlocale(locale.LC_ALL, name): raises locale.Error, changing
\* nothing, when the machine does not have the locale.
SetLocale(l, name) ==
    IF Resolved(name) \in l.installed
    THEN [exc |-> "none", l |-> [l EXCEPT !.name = Resolved(name)]]
    ELSE [exc |-> "locale.Error", l |-> l]

\* with LOCALE_LOCK, line 60: entered when the lock is free.
Acquire(l) == [l EXCEPT !.locked = TRUE]

\* Leaving the with statement of line 60, by return or by exception.
Release(l) == [l EXCEPT !.locked = FALSE]

\* A variant of Restore: line 65 as the statement after the yield, with
\* no try statement around it, which an exception (exc) skips.
RestoreAfterReturn(l, saved, exc) ==
    IF exc = "none" THEN [l EXCEPT !.name = saved] ELSE l

\* The finally clause, line 65: runs however the try block ended (exc).
Restore(l, saved, exc) == [l EXCEPT !.name = saved]

\* with setlocale(name), lines 57-65, around a body that returns and
\* leaves the locale alone.  Result: exc, and the locale after it.
LocaleAfter(l, name) ==
    LET held == Acquire(l)
        saved == held.name
        set == SetLocale(held, name)
    IN  [exc |-> set.exc, l |-> Release(Restore(set.l, saved, set.exc))]

\* The local times during a tick, for the history.
IdsOf(at) == <<at[1].id, at[2].id, at[3].id>>

\* tick run by the main thread, its strftime calls reading the local times
\* at.  Nothing catches a locale.Error: it leaves tick before the labels
\* and before after().  The thread waits at line 60 while the lock is held.
tick(at, via, p) ==
    \E r \in {LocaleAfter(locale, UI_LOCALE)}, b \in {TickBody(clock, at)} :
        /\ ~locale.locked
        /\ locale' = r.l
        /\ IF r.exc = "none"
           THEN /\ clock' = b.c
                /\ pending' = After(p, TICK_MS, "tick")
                /\ clog' = [calls |-> b.calls, at |-> IdsOf(at),
                            exc |-> "none", n |-> 1 - clog.n]
                /\ phase' = IF via = "constructor" THEN "Weather" ELSE phase
           ELSE /\ clock' = clock
                /\ pending' = p
                /\ clog' = [calls |-> {}, at |-> IdsOf(at), exc |-> r.exc,
                            n |-> 1 - clog.n]
                /\ phase' = IF via = "constructor" THEN "crashed" ELSE phase

-----------------------------------------------------------------------------
(* Inputs.                                                                 *)

NoObj == [temp |-> 0, main |-> "", description |-> "", name |-> "",
          icon |-> ""]

NoGeo == [city |-> "", region_code |-> "", latitude |-> "",
          longitude |-> ""]

Raises(excs, obj) == {[exc |-> e, obj |-> obj] : e \in excs}

Returns(objs) == {[exc |-> "none", obj |-> o] : o \in objs}

\* Responses of the weather provider: main.temp in tenths of a Kelvin.
\* Three readings (the second differs from the first in the temperature
\* alone) under every name and icon code tried.
Readings ==
    {[temp |-> 3000, main |-> "Clear", description |-> "clear sky"],
     [temp |-> 2995, main |-> "Clear", description |-> "clear sky"],
     [temp |-> 3000, main |-> "Rain", description |-> "light rain"]}

WeatherObjs ==
    {[temp |-> r.temp, main |-> r.main, description |-> r.description,
      name |-> n, icon |-> i] :
        r \in Readings, n \in {"Posadas", ", "}, i \in {"01d", "10d", "99x"}}

GeoObjs == {[city |-> "", region_code |-> "", latitude |-> "40.7128",
             longitude |-> "-74.006"],
            [city |-> "Posadas", region_code |-> "N",
             latitude |-> "-27.3671", longitude |-> "-55.8961"]}

IpOk == [exc |-> "none", ip |-> "203.0.113.7"]

IpRaises(e) == [exc |-> e, ip |-> NONE]

\* What one run of get_weather can meet from the weather request on.
\* Inputs a run does not read are fixed, so that no two inputs describe
\* the same run twice.
StaticInputs(objs) ==
    [ip : {IpOk}, geo : Returns({NoGeo}),
     wx : Raises({"ConnectionError", "JSONDecodeError", "KeyError",
                  "ValueError", "hang"}, NoObj),
     img : {"ok"}]
    \cup [ip : {IpOk}, geo : Returns({NoGeo}),
          wx : Returns(objs), img : {"ok", "OSError"}]

\* The same after each way through the geo-IP requests, and the runs
\* that end in them.
GeoInputs(objs) ==
    [ip : {IpRaises("ConnectionError"), IpRaises("hang")},
     geo : Returns({NoGeo}), wx : Returns({NoObj}), img : {"ok"}]
    \cup [ip : {IpOk, IpRaises("KeyError")},
          geo : Raises({"ConnectionError", "JSONDecodeError", "KeyError",
                        "hang"}, NoGeo),
          wx : Returns({NoObj}), img : {"ok"}]
    \cup {[i EXCEPT !.ip = ip, !.geo = g] :
            i \in StaticInputs(objs), ip \in {IpOk},
            g \in Returns(GeoObjs)}
    \cup {[i EXCEPT !.ip = IpRaises("JSONDecodeError")] :
            i \in StaticInputs(objs)}

WeatherInputs ==
    [static |-> StaticInputs(WeatherObjs), geo |-> GeoInputs(WeatherObjs)]

\* The inputs of the path the configuration takes.
InputsFor(ins) ==
    IF UsesGeoIp(LATITUDE, LONGITUDE) THEN ins.geo ELSE ins.static

\* The longest feed tried.
MaxFeedLen == 6

\* The feeds start at one of this many places of the stream of headlines.
MaxFeedStart == 2

Title(i) == "headline " \o ToString(i)

Feeds ==
    {[k \in 1..n |-> Title(s + k - 1)] : n \in 0..MaxFeedLen,
                                         s \in 1..MaxFeedStart}
    \cup {<<Title(1), NONE, Title(3)>>}

NewsInputsOver(feeds) ==
    [feed : {[exc |-> e, entries |-> <<>>] :
                e \in {"ConnectionError", "hang"}},
     img : {0}]
    \cup [feed : {[exc |-> "none", entries |-> f] : f \in feeds},
          img : 0..FIRST_N]

NewsInputs == NewsInputsOver(Feeds)

\* Local times the clock is read at.
Instants ==
    {[id |-> 1, hour |-> 23, min |-> 59, wday |-> 7, mon |-> 12,
      mday |-> 31, year |-> 2023],
     [id |-> 2, hour |-> 0, min |-> 0, wday |-> 1, mon |-> 1, mday |-> 1,
      year |-> 2024],
     [id |-> 3, hour |-> 0, min |-> 1, wday |-> 1, mon |-> 1, mday |-> 1,
      year |-> 2024],
     [id |-> 4, hour |-> 12, min |-> 1, wday |-> 1, mon |-> 1, mday |-> 1,
      year |-> 2024]}

\* The local times the three strftime calls of one tick can read: the
\* wall clock does not go back between them (Instants are numbered in
\* the order of time).
Reads(instants) ==
    {at \in instants \X instants \X instants :
        at[1].id <= at[2].id /\ at[2].id <= at[3].id}

\* The ticks whose three calls read the same local time.
SameRead(instants) == {<<t, t, t>> : t \in instants}

\* The locales the machine can have installed: with and without the one
\* the environment names.
Machines == {{STARTUP_LOCALE}, {STARTUP_LOCALE, ENV_LOCALE}}

\* The other callers of setlocale() that are tried.
MaxThreads == 2

Threads == 1..MaxThreads

\* The names they ask for.
ThreadLocales == {UI_LOCALE, NO_LOCALE}

\* The smallest and the largest reading (whole Kelvin) the conversions
\* are applied to.
MinKelvin == 200

MaxKelvin == 301

\* The readings, in tenths of a Kelvin.
Tenths == (10 * MinKelvin)..(10 * MaxKelvin + 9)

\* The most waits that end before the last pending timer is due.
MaxShortWaits == 3

\* A thread that is not in the context manager.
Outside ==
    [pc |-> "out", name |-> "", saved |-> "", found |-> "", exc |-> "none"]

\* The callbacks that poll a provider.
Polls == {"get_weather", "get_headlines"}

\* The coordinates as configured (line 49, 50) and as left unset.
Latitudes == {"-26.6316062", NONE}

Longitudes == {"-54.1174863", NONE}

-----------------------------------------------------------------------------
(* The program.                                                            *)

\* The state when FullscreenWindow.__init__ reaches line 419: the flag
\* False (line 415), the window as Tk opens it (not fullscreen), the
\* widgets as their constructors build them, no timer yet.
Init ==
    /\ LATITUDE \in Latitudes
    /\ LONGITUDE \in Longitudes
    /\ phase = "Clock"
    /\ blocked = NONE
    /\ pending = [fn \in Callbacks |-> <<>>]
    /\ clock = ClockInit
    /\ \E m \in Machines :
          locale = [name |-> STARTUP_LOCALE, locked |-> FALSE,
                    installed |-> m]
    /\ threads = [t \in Threads |-> Outside]
    /\ fullscreen = [state |-> FALSE, attribute |-> FALSE, key |-> "none",
                     n |-> 0]
    /\ time = [left |-> [fn \in Callbacks |-> <<>>],
               since |-> [fn \in Polls |-> POLL_MS],
               waits |-> 0]
    /\ conv = <<>>
    /\ weather = WeatherInit
    /\ news = <<>>
    /\ wlog = [calls |-> {}, exc |-> "none", requests |-> <<>>,
               coords |-> <<>>, drawn |-> <<>>, located |-> NONE,
               via |-> "never", escaped |-> FALSE, n |-> 0]
    /\ nlog = [exc |-> "none", via |-> "never", escaped |-> FALSE,
               entries |-> <<>>, n |-> 0]
    /\ clog = [calls |-> {}, at |-> <<>>, exc |-> "none", n |-> 0]

\* What a run of fn does to the timers' clocks: the timer it was run from
\* (via "timer") is gone, the timers it registered start at their delays,
\* and the time since fn last ran starts anew.
Ran(fn, via) ==
    LET first == Len(pending[fn]) + (IF via = "timer" THEN 0 ELSE 1)
        registered == SubSeq(pending'[fn], first, Len(pending'[fn]))
    IN  [time EXCEPT
           !.left[fn] = (IF via = "timer" THEN Tail(@) ELSE @) \o registered,
           !.since = [f \in Polls |-> IF f = fn THEN 0 ELSE @[f]]]

\* Clock(self.top_frame), line 419: the constructor ends in self.tick().
ConstructClock(rs) ==
    /\ phase = "Clock"
    /\ \E at \in rs : tick(at, "constructor", pending)
    /\ time' = Ran("tick", "constructor")
    /\ UNCHANGED <<LATITUDE, LONGITUDE, blocked, threads, fullscreen, conv,
                   weather, news, wlog, nlog>>

\* Weather(self.top_frame), line 422: ends in self.get_weather().
ConstructWeather(ins) ==
    /\ phase = "Weather"
    /\ blocked = NONE
    /\ \E in \in InputsFor(ins) : get_weather(in, "constructor", pending)
    /\ time' = Ran("get_weather", "constructor")
    /\ UNCHANGED <<LATITUDE, LONGITUDE, clock, locale, threads, fullscreen,
                   conv, news, nlog, clog>>

\* News(self.bottom_frame), line 425: ends in self.get_headlines().
ConstructNews(ins) ==
    /\ phase = "News"
    /\ blocked = NONE
    /\ \E in \in ins : get_headlines(in, "constructor", pending)
    /\ time' = Ran("get_headlines", "constructor")
    /\ UNCHANGED <<LATITUDE, LONGITUDE, clock, locale, threads, fullscreen,
                   conv, weather, wlog, clog>>

\* w.tk.mainloop() handles an event (a timer, a key): only between
\* callbacks, so never while a callback is stuck in a request.
Dispatching ==
    /\ phase = "mainloop"
    /\ blocked = NONE

\* It runs a timer of fn.
CanRun(fn) ==
    /\ Dispatching
    /\ pending[fn] # <<>>

TimerTick(rs) ==
    /\ CanRun("tick")
    /\ \E at \in rs : tick(at, "timer", Taken(pending, "tick"))
    /\ time' = Ran("tick", "timer")
    /\ UNCHANGED <<LATITUDE, LONGITUDE, blocked, threads, fullscreen, conv,
                   weather, news, wlog, nlog>>

TimerWeather(ins) ==
    /\ CanRun("get_weather")
    /\ \E in \in InputsFor(ins) :
          get_weather(in, "timer", Taken(pending, "get_weather"))
    /\ time' = Ran("get_weather", "timer")
    /\ UNCHANGED <<LATITUDE, LONGITUDE, clock, locale, threads, fullscreen,
                   conv, news, nlog, clog>>

TimerNews(ins) ==
    /\ CanRun("get_headlines")
    /\ \E in \in ins :
          get_headlines(in, "timer", Taken(pending, "get_headlines"))
    /\ time' = Ran("get_headlines", "timer")
    /\ UNCHANGED <<LATITUDE, LONGITUDE, clock, locale, threads, fullscreen,
                   conv, weather, wlog, clog>>

\* The window as a whole on a few inputs for each widget: one local time;
\* a full reading and a degraded one; a feed of the longest length, whole
\* or with a second row that cannot be built.  Timers run at any moment
\* (time is left out) and no key is pressed.
SysInstants == {t \in Instants : t.id = 1}

SysWeatherObjs ==
    {o \in WeatherObjs :
        \/ o.temp = 3000 /\ o.main = "Clear" /\ o.name = "Posadas"
           /\ o.icon = "01d"
        \/ o.temp = 3000 /\ o.main = "Rain" /\ o.name = ", "
           /\ o.icon = "99x"}

SysWeatherInputs ==
    [static |-> StaticInputs(SysWeatherObjs),
     geo |-> {i \in GeoInputs(SysWeatherObjs) :
                i.geo.exc # "none" \/ i.geo.obj.city = ""}]

SysNewsInputs ==
    {i \in NewsInputsOver({f \in Feeds : Len(f) = MaxFeedLen
                                         /\ f[1] = Title(1)}) :
        i.img \in {0, 2}}

Next ==
    \/ ConstructClock(SameRead(SysInstants))
    \/ ConstructWeather(SysWeatherInputs)
    \/ ConstructNews(SysNewsInputs)
    \/ TimerTick(SameRead(SysInstants))
    \/ TimerWeather(SysWeatherInputs)
    \/ TimerNews(SysNewsInputs)

Spec == Init /\ [][Next]_vars

\* The event loop runs every timer that is due, and the constructors run
\* one after the other: no enabled step is put off for ever.
FairSpec ==
    /\ Spec
    /\ WF_vars(ConstructClock(SameRead(SysInstants)))
    /\ WF_vars(ConstructWeather(SysWeatherInputs))
    /\ WF_vars(ConstructNews(SysNewsInputs))
    /\ WF_vars(TimerTick(SameRead(SysInstants)))
    /\ WF_vars(TimerWeather(SysWeatherInputs))
    /\ WF_vars(TimerNews(SysNewsInputs))

\* One widget on every input, the rest of the window built from one input
\* each and its timers left pending: the widgets share no state, so what
\* the other callbacks do between two runs of this one does not change it.
OneInstant == {t \in Instants : t.id = 1}

OneRead == SameRead(OneInstant)

OneWeather ==
    LET one == {i \in StaticInputs(SysWeatherObjs) :
                  i.wx.exc = "none" /\ i.wx.obj.icon = "01d"
                  /\ i.img = "ok"}
    IN  [static |-> one, geo |-> one]

OneFeed ==
    {i \in NewsInputsOver({<<Title(1)>>}) :
        i.img = 0 /\ i.feed.exc = "none"}

WeatherNext ==
    \/ ConstructClock(OneRead)
    \/ ConstructWeather(WeatherInputs)
    \/ ConstructNews(OneFeed)
    \/ TimerWeather(WeatherInputs)

WeatherSpec == Init /\ [][WeatherNext]_vars

NewsNext ==
    \/ ConstructClock(OneRead)
    \/ ConstructWeather(OneWeather)
    \/ ConstructNews(NewsInputs)
    \/ TimerNews(NewsInputs)

NewsSpec == Init /\ [][NewsNext]_vars

\* The clock on every reading of the wall clock.
ClockNext ==
    \/ ConstructClock(Reads(Instants))
    \/ ConstructWeather(OneWeather)
    \/ ConstructNews(OneFeed)
    \/ TimerTick(Reads(Instants))

ClockSpec == Init /\ [][ClockNext]_vars

\* The shell's keys, lines 416-417 and 431-441.

\* A variant of Toggled: the key switches fullscreen on.
ToggledOn(f) == [f EXCEPT !.state = TRUE, !.attribute = TRUE]

\* Lines 433-434: the flag negated, the attribute set to the new flag.
Toggled(f) == [f EXCEPT !.state = ~f.state, !.attribute = ~f.state]

\* Lines 439-440.
Ended(f) == [f EXCEPT !.state = FALSE, !.attribute = FALSE]

\* The key is noted in the history.
Handled(f, key) == [f EXCEPT !.key = key, !.n = 1 - @]

\* <Return> is pressed and the event loop calls toggle_fullscreen.
toggle_fullscreen ==
    /\ Dispatching
    /\ fullscreen' = Handled(Toggled(fullscreen), "Return")
    /\ UNCHANGED <<LATITUDE, LONGITUDE, phase, blocked, pending, clock,
                   locale, threads, time, conv, weather, news, wlog, nlog,
                   clog>>

\* <Escape> is pressed and the event loop calls end_fullscreen.
end_fullscreen ==
    /\ Dispatching
    /\ fullscreen' = Handled(Ended(fullscreen), "Escape")
    /\ UNCHANGED <<LATITUDE, LONGITUDE, phase, blocked, pending, clock,
                   locale, threads, time, conv, weather, news, wlog, nlog,
                   clog>>

\* The keys while the clock and the news run (and the news can hang).
ShellNext ==
    \/ ConstructClock(OneRead)
    \/ ConstructWeather(OneWeather)
    \/ ConstructNews(SysNewsInputs)
    \/ TimerTick(OneRead)
    \/ TimerNews(SysNewsInputs)
    \/ toggle_fullscreen
    \/ end_fullscreen

ShellSpec == Init /\ [][ShellNext]_vars

\* setlocale(name), lines 57-65, statement by statement, as a thread other
\* than the main thread goes through it.

ThreadStep(t, l, th) ==
    /\ phase # "crashed"
    /\ locale' = l
    /\ threads' = [threads EXCEPT ![t] = th]
    /\ UNCHANGED <<LATITUDE, LONGITUDE, phase, blocked, pending, clock,
                   fullscreen, time, conv, weather, news, wlog, nlog, clog>>

\* Line 60: the thread gets LOCALE_LOCK, which it waits for while another
\* holds it.
Enter(t) ==
    /\ threads[t].pc = "out"
    /\ ~locale.locked
    /\ \E name \in ThreadLocales :
          ThreadStep(t, Acquire(locale),
                     [threads[t] EXCEPT !.pc = "locked", !.name = name,
                                        !.found = locale.name])

\* Line 61.
Save(t) ==
    /\ threads[t].pc = "locked"
    /\ ThreadStep(t, locale,
                  [threads[t] EXCEPT !.pc = "saved", !.saved = locale.name])

\* Line 63: the body of the caller's with statement is entered unless
\* setting the locale raises.
Set(t) ==
    /\ threads[t].pc = "saved"
    /\ \E r \in {SetLocale(locale, threads[t].name)} :
          ThreadStep(t, r.l,
                     [threads[t] EXCEPT
                        !.pc = IF r.exc = "none" THEN "body" ELSE "finally",
                        !.exc = r.exc])

\* The body of the caller's with statement returns or raises.
Body(t) ==
    /\ threads[t].pc = "body"
    /\ \E exc \in {"none", "ValueError"} :
          ThreadStep(t, locale,
                     [threads[t] EXCEPT !.pc = "finally", !.exc = exc])

\* Line 65.
Finally(t) ==
    /\ threads[t].pc = "finally"
    /\ ThreadStep(t, Restore(locale, threads[t].saved, threads[t].exc),
                  [threads[t] EXCEPT !.pc = "leaving"])

\* The with statement of line 60 is left: the lock is released.
Leave(t) ==
    /\ threads[t].pc = "leaving"
    /\ ThreadStep(t, Release(locale), Outside)

\* The clock while other threads use setlocale().
LocaleNext ==
    \/ ConstructClock(OneRead)
    \/ ConstructWeather(OneWeather)
    \/ ConstructNews(OneFeed)
    \/ TimerTick(OneRead)
    \/ \E t \in Threads : Enter(t)
    \/ \E t \in Threads : Save(t)
    \/ \E t \in Threads : Set(t)
    \/ \E t \in Threads : Body(t)
    \/ \E t \in Threads : Finally(t)
    \/ \E t \in Threads : Leave(t)

LocaleSpec == Init /\ [][LocaleNext]_vars

\* Time.  A timer is run when it is due.
Due(fn) ==
    /\ time.left[fn] # <<>>
    /\ Head(time.left[fn]) = 0

\* The times until the pending timers that are not yet due are.
Waits ==
    UNION {{time.left[fn][i] : i \in DOMAIN time.left[fn]} :
             fn \in Callbacks} \ {0}

\* Time passes, up to the moment one of the pending timers is due.
Elapse ==
    /\ phase = "mainloop"
    /\ \E d \in Waits :
          LET short == \E e \in Waits : e > d IN
          /\ short => time.waits < MaxShortWaits
          /\ time' =
               [left |-> [fn \in Callbacks |->
                            [i \in DOMAIN time.left[fn] |->
                               IF time.left[fn][i] > d
                               THEN time.left[fn][i] - d ELSE 0]],
                since |-> [fn \in Polls |-> Min(time.since[fn] + d, POLL_MS)],
                waits |-> time.waits + (IF short THEN 1 ELSE 0)]
    /\ UNCHANGED <<LATITUDE, LONGITUDE, phase, blocked, pending, clock,
                   locale, threads, fullscreen, conv, weather, news, wlog,
                   nlog, clog>>

\* A reading that draws and one that fails, for each widget.
TimedWeather ==
    LET some == {i \in StaticInputs(SysWeatherObjs) :
                   /\ i.img = "ok"
                   /\ \/ i.wx.exc \in {"ConnectionError", "hang"}
                      \/ i.wx.exc = "none" /\ i.wx.obj.icon = "01d"}
    IN  [static |-> some, geo |-> some]

TimedNews ==
    {i \in NewsInputsOver({<<Title(1)>>}) : i.img = 0}

DueTick == Due("tick") /\ TimerTick(OneRead)

DueWeather == Due("get_weather") /\ TimerWeather(TimedWeather)

DueNews == Due("get_headlines") /\ TimerNews(TimedNews)

\* The window with time: every timer is run when it is due or later.
TimedNext ==
    \/ ConstructClock(OneRead)
    \/ ConstructWeather(TimedWeather)
    \/ ConstructNews(TimedNews)
    \/ DueTick
    \/ DueWeather
    \/ DueNews
    \/ Elapse

TimedSpec == Init /\ [][TimedNext]_vars

\* The conversions of one reading of t tenths of a Kelvin: what a poll
\* that reads it draws on an empty widget (shown), int() of it (kelvin),
\* and what both static methods make of that (fahrenheit in tenths).
Reading(t) ==
    [ip |-> IpOk, geo |-> [exc |-> "none", obj |-> NoGeo],
     wx |-> [exc |-> "none", obj |-> [NoObj EXCEPT !.temp = t]],
     img |-> "ok"]

Convert(t) ==
    /\ conv = <<>>
    /\ conv' = <<[tenths |-> t,
                  kelvin |-> IntOfTenths(t),
                  shown |-> WeatherTry(WeatherInit, LATITUDE, LONGITUDE,
                                       Reading(t)).w.temperature_lbl,
                  celsius |-> convert_kelvin_to_celsius(IntOfTenths(t)),
                  fahrenheit |->
                      convert_kelvin_to_fahrenheit(IntOfTenths(t))]>>
    /\ UNCHANGED <<LATITUDE, LONGITUDE, phase, blocked, pending, clock,
                   locale, threads, fullscreen, time, weather, news, wlog,
                   nlog, clog>>

ConvNext == \E t \in Tenths : Convert(t)

ConvSpec == Init /\ [][ConvNext]_vars

-----------------------------------------------------------------------------
(* Properties.                                                             *)

\* What the five labels of the Weather widget show.
LabelsOf(w) == [l \in WeatherLabels |-> w[l]]

\* The labels show fields f: the texts as extracted (the blank location
\* as "Cannot Pinpoint Location"), the icon as icon_lookup maps the code,
\* no image for a code it does not map.
Shows(w, f) ==
    /\ w.temperature_lbl = f.temperature
    /\ w.currently_lbl = f.currently
    /\ w.forecast_lbl = f.forecast
    /\ w.actual_location_lbl =
          (IF f.actual_location = ", " THEN "Cannot Pinpoint Location"
           ELSE f.actual_location)
    /\ w.icon_lbl = (IF f.icon_id \in DOMAIN icon_lookup
                     THEN icon_lookup[f.icon_id] ELSE "")

\* A step that is a run of get_weather / of get_headlines.
WeatherRan == wlog'.n # wlog.n

NewsRan == nlog'.n # nlog.n

\* C1: a poll of the news that fails (the fetch or a later step raises)
\* leaves the displayed headline rows as they were before the poll.
C1_FailedPollKeepsRows ==
    [][(NewsRan /\ nlog'.exc \notin {"none", "hang"})
         => Displayed(news') = Displayed(news)]_vars

\* C2: a weather poll that fails at any step (or hangs in a request)
\* leaves what the five weather labels show as it was before the poll.
C2_FailedPollKeepsLabels ==
    [][(WeatherRan /\ wlog'.exc # "none")
         => LabelsOf(weather') = LabelsOf(weather)]_vars

\* C2 happens: the icon image failed to load in a poll run while the
\* labels showed an earlier reading.
C2_Witness ==
    /\ wlog.exc = "OSError"
    /\ wlog.via = "timer"
    /\ weather.temperature_lbl # ""
    /\ weather.icon_lbl # ""

\* C3: when the last poll succeeded, every weather label mirrors its
\* fields, the icon label the asset mapped from its icon code.
C3_LabelsMirrorLastSuccess ==
    wlog.drawn # <<>> => Shows(weather, wlog.drawn[1])

\* C4: a successful poll that extracts the fields the successful poll
\* before it extracted configures no label.
C4_NoRedrawOnSameFields ==
    [][(WeatherRan /\ wlog.drawn # <<>> /\ wlog'.drawn = wlog.drawn)
         => wlog'.calls = {}]_vars

\* Every run of a poll that ends adds exactly one timer of 600000 ms for
\* the same method to the timers the event loop left, and touches no other.
PollReschedules ==
    [][/\ (WeatherRan /\ wlog'.exc # "hang")
          => pending' = After(IF wlog'.via = "timer"
                              THEN Taken(pending, "get_weather")
                              ELSE pending, POLL_MS, "get_weather")
       /\ (NewsRan /\ nlog'.exc # "hang")
          => pending' = After(IF nlog'.via = "timer"
                              THEN Taken(pending, "get_headlines")
                              ELSE pending, POLL_MS, "get_headlines")]_vars

\* Both widgets poll again and again, unless the thread is lost: stuck in
\* a request that never returns, or gone with a constructor that raised.
PollsForever ==
    \/ <>[](blocked # NONE \/ phase = "crashed")
    \/ ([]<><<WeatherRan>>_vars /\ []<><<NewsRan>>_vars)

\* C5: every run of get_weather and of get_headlines that ends, with or
\* without an exception in its try block, schedules exactly one further
\* run of the same method 600000 ms later; so each widget polls infinitely
\* often, whatever fails, as long as no request hangs.
C5_AlwaysReschedules == PollReschedules /\ PollsForever

\* C5 happens: both polls were run by a timer and failed, and each left
\* exactly its one timer behind.
C5_Witness ==
    /\ wlog.via = "timer" /\ wlog.exc \in ExceptionClasses
    /\ nlog.via = "timer" /\ nlog.exc \in ExceptionClasses
    /\ pending["get_weather"] = <<POLL_MS>>
    /\ pending["get_headlines"] = <<POLL_MS>>

\* C6: while a request of one widget hangs in the running event loop, the
\* scheduled callbacks of the other widgets can still run.
C6_SiblingsRunDuringHang ==
    (phase = "mainloop" /\ blocked # NONE) =>
        /\ (pending["tick"] # <<>> => ENABLED TimerTick(SysInstants))
        /\ (blocked = "get_weather" /\ pending["get_headlines"] # <<>>
              => ENABLED TimerNews(SysNewsInputs))
        /\ (blocked = "get_headlines" /\ pending["get_weather"] # <<>>
              => ENABLED TimerWeather(SysWeatherInputs))

\* C7: after a successful poll on the geo-IP path whose geolocation had an
\* empty city and an empty region code, the location label shows
\* "Cannot Pinpoint Location".
C7_BlankGeoLocation ==
    (wlog.exc = "none" /\ wlog.via # "never" /\ wlog.located = ", ")
        => weather.actual_location_lbl = "Cannot Pinpoint Location"

\* C8: after a successful poll the icon label shows the asset of a mapped
\* icon code; for an unmapped code it shows no image and the text labels
\* show the fields of that poll.
C8_IconSelected ==
    wlog.drawn # <<>> =>
        LET f == wlog.drawn[1] IN
        IF f.icon_id \in DOMAIN icon_lookup
        THEN weather.icon_lbl = icon_lookup[f.icon_id]
        ELSE /\ weather.icon_lbl = ""
             /\ wlog.exc = "none"
             /\ weather.temperature_lbl = f.temperature
             /\ weather.currently_lbl = f.currently
             /\ weather.forecast_lbl = f.forecast

\* The first min(5, n) of n entries.
FirstEntries(entries) ==
    [k \in 1..Min(FIRST_N, Len(entries)) |-> entries[k]]

\* C9: after a successful news poll the displayed rows are the titles of
\* the first min(5, n) entries of the feed in feed order, and no state
\* displays more than 5 rows.
C9_RowsAreFirstFive ==
    /\ (nlog.via # "never" /\ nlog.exc = "none")
          => Displayed(news) = FirstEntries(nlog.entries)
    /\ Len(Displayed(news)) <= FIRST_N

\* C9 happens: a poll run by a timer replaced rows by the first 5 of a
\* feed of more than 5 entries.
C9_Witness ==
    /\ nlog.via = "timer"
    /\ nlog.exc = "none"
    /\ Len(nlog.entries) > FIRST_N
    /\ Len(Displayed(news)) = FIRST_N

\* C10: no exception leaves get_weather or get_headlines; the window's
\* constructor is only ever abandoned before the first poll.
C10_NoErrorEscapes ==
    /\ ~wlog.escaped
    /\ ~nlog.escaped
    /\ phase = "crashed" => (wlog.via = "never" /\ nlog.via = "never")

\* C10 happens: the first poll, run by the constructor, met a connection
\* error in get_ip (which get_ip does not catch), the constructor went on,
\* and a later news poll failed while building a row.
C10_Witness ==
    /\ phase = "mainloop"
    /\ wlog.via = "constructor"
    /\ wlog.exc = "ConnectionError"
    /\ wlog.requests = <<"jsonip.com">>
    /\ nlog.via = "timer"
    /\ nlog.exc = "OSError"

\* The instant numbered id.
InstantOf(id) == CHOOSE t \in Instants : t.id = id

\* The cache behind each sub-label of the clock.
CacheOf ==
    [time_lbl |-> "time_old", day_of_wk_lbl |-> "day_of_week_old",
     date_lbl |-> "date_old"]

\* The strings of a tick whose strftime calls are made at the times at.
StringsAt(at) ==
    [time_lbl |-> TimeText(InstantOf(at[1])),
     day_of_wk_lbl |-> DayText(InstantOf(at[2])),
     date_lbl |-> DateText(InstantOf(at[3]))]

\* A step that is a run of tick.
TickRan == clog'.n # clog.n

\* C11: in each tick, each of the three sub-labels is configured if and
\* only if its newly formatted string differs from the cached one, a
\* sub-label that is not configured keeps its text and its cache, every
\* sub-label shows the current string after the tick, and the tick leaves
\* exactly one timer for the next tick, 200 ms later.
C11_TickRedrawsWhatChanged ==
    [][TickRan =>
         /\ \A lbl \in DOMAIN CacheOf :
               /\ lbl \in clog'.calls
                    <=> StringsAt(clog'.at)[lbl] # clock[CacheOf[lbl]]
               /\ lbl \notin clog'.calls
                    => /\ clock'[lbl] = clock[lbl]
                       /\ clock'[CacheOf[lbl]] = clock[CacheOf[lbl]]
               /\ clock'[lbl] = StringsAt(clog'.at)[lbl]
         /\ pending'["tick"] = <<TICK_MS>>]_vars

\* C12: a successful poll shows int(main.temp) - 273 followed by the degree
\* sign, int() truncating the reading before the subtraction: the number
\* shown is the whole k with k + 273 <= reading < k + 274, so every reading
\* in [300, 301) shows "27°"; and convert_kelvin_to_celsius(k) is k - 273
\* for a whole k.
C12_TruncatedCelsius ==
    \A i \in DOMAIN conv :
       /\ \E k \in (MinKelvin - 273)..(MaxKelvin - 273) :
             /\ 10 * (k + 273) <= conv[i].tenths
             /\ conv[i].tenths < 10 * (k + 274)
             /\ conv[i].shown = ToString(k) \o "°"
       /\ conv[i].tenths \in 3000..3009 => conv[i].shown = "27°"
       /\ conv[i].tenths % 10 = 0
            => 10 * (conv[i].celsius + 273) = conv[i].tenths

\* A reading of 300.9 K has been converted.
C12_Witness ==
    /\ conv # <<>>
    /\ conv[1].tenths = 3009
    /\ conv[1].shown = "27°"

\* C13: convert_kelvin_to_fahrenheit(k) is 1.8 * (k - 273) + 32 for a whole
\* k, in tenths of a degree 18 * (k - 273) + 320: 80.6 for 300.
C13_Fahrenheit ==
    \A i \in DOMAIN conv :
       /\ conv[i].fahrenheit = 18 * (conv[i].kelvin - 273) + 320
       /\ conv[i].kelvin = 300 => conv[i].fahrenheit = 806

\* 300 K has been converted.
C13_Witness ==
    /\ conv # <<>>
    /\ conv[1].tenths = 3000
    /\ conv[1].fahrenheit = 806

\* A step in which the event loop handles a press of key.
KeyHandled(key) == fullscreen'.n # fullscreen.n /\ fullscreen'.key = key

\* C14: the flag starts False, toggle_fullscreen negates it, end_fullscreen
\* sets it to False from either value, no other step changes it, the
\* window's fullscreen attribute always equals the flag, and after every
\* press of a key both keys can be pressed again.
C14_FullscreenFlag ==
    /\ ~fullscreen.state
    /\ [][/\ KeyHandled("Return") => fullscreen'.state = ~fullscreen.state
          /\ KeyHandled("Escape") => ~fullscreen'.state
          /\ fullscreen'.n = fullscreen.n => fullscreen' = fullscreen
          /\ fullscreen'.n # fullscreen.n
               => /\ (ENABLED toggle_fullscreen)'
                  /\ (ENABLED end_fullscreen)']_vars
    /\ [](fullscreen.attribute = fullscreen.state)

\* <Return> has switched fullscreen on, as the last of an odd number of
\* keys, after a refresh of the news run from a timer.
C14_Witness ==
    /\ fullscreen.state
    /\ fullscreen.attribute
    /\ fullscreen.key = "Return"
    /\ fullscreen.n = 1
    /\ nlog.via = "timer"

\* A step that is a run of fn.
RanFn(fn) ==
    CASE fn = "tick" -> TickRan
      [] fn = "get_weather" -> WeatherRan
      [] fn = "get_headlines" -> NewsRan

\* A step that is a run of fn from a timer.
PollRanFromTimer(fn) ==
    \/ fn = "get_weather" /\ WeatherRan /\ wlog'.via = "timer"
    \/ fn = "get_headlines" /\ NewsRan /\ nlog'.via = "timer"

\* C15: once the widgets are built, each of the three callbacks has
\* exactly one timer pending, except the callback that is stuck inside its
\* own run; the timers of a callback change only when it runs (none is
\* cancelled, none added by another); and a poll run from a timer starts at
\* least 600000 ms after the poll before it, whether that one failed or not.
C15_OnePendingRefresh ==
    /\ [](phase = "mainloop"
            => \A fn \in Callbacks :
                  Len(pending[fn]) = IF blocked = fn THEN 0 ELSE 1)
    /\ [][\A fn \in Callbacks :
             pending'[fn] # pending[fn] => RanFn(fn)]_vars
    /\ [][\A fn \in Polls :
             PollRanFromTimer(fn) => time.since[fn] >= POLL_MS]_vars

\* A failed poll of the weather, run from a timer that was due after a
\* failed poll, has left one timer of 600000 ms.
C15_Witness ==
    /\ wlog.via = "timer"
    /\ wlog.exc = "ConnectionError"
    /\ wlog.n = 1
    /\ time.since["get_weather"] = 0
    /\ time.left["get_weather"] = <<POLL_MS>>
    /\ nlog.via = "timer"

\* C16: after every poll of the weather, failed or not, the caches agree
\* with the labels: each text cache equals the text of its label, and
\* self.icon is the asset the icon label shows (no image only when
\* self.icon names no asset).
C16_CacheAgreesWithLabels ==
    wlog.via # "never"
      => /\ weather.temperature = weather.temperature_lbl
         /\ weather.currently = weather.currently_lbl
         /\ weather.forecast = weather.forecast_lbl
         /\ weather.actual_location = weather.actual_location_lbl
         /\ weather.icon = weather.icon_lbl

\* The thread is in the guarded block of setlocale().
Inside(t) == threads[t].pc # "out"

\* C17: at most one thread is inside the guarded block, and the lock is
\* held exactly while one is; a thread that leaves the block, after its
\* body returned, after its body raised or after setting the locale
\* raised, leaves the locale as it found it on entry and the lock free;
\* and every tick leaves the locale as it was and the lock free.
C17_LocaleGuard ==
    /\ [](Cardinality({t \in Threads : Inside(t)}) <= 1)
    /\ [](locale.locked <=> \E t \in Threads : Inside(t))
    /\ [][\A t \in Threads :
             /\ threads[t].pc = "locked" /\ threads'[t].pc = "saved"
                  => threads'[t].saved = threads[t].found
             /\ (Inside(t) /\ ~Inside(t)')
                  => /\ locale'.name = threads[t].found
                     /\ locale'.name = threads[t].saved
                     /\ ~locale'.locked]_vars
    /\ [][TickRan => /\ locale'.name = locale.name
                     /\ ~locale'.locked]_vars

\* A thread whose body raised under the environment's locale is about to
\* leave the block with the locale restored, the clock ticking meanwhile.
C17_Witness ==
    /\ \E t \in Threads :
          /\ threads[t].pc = "leaving"
          /\ threads[t].exc = "ValueError"
          /\ threads[t].found = STARTUP_LOCALE
    /\ locale.name = STARTUP_LOCALE
    /\ locale.locked
    /\ clog.exc = "none"
    /\ phase = "mainloop"

\* C18: a poll asks the geo-IP providers (the IP lookup first, then the
\* geolocation) if and only if LATITUDE and LONGITUDE are both unset;
\* otherwise, with both set or with only one set, its only request is the
\* weather request, made for the configured coordinates.
C18_GeoIpIffNoCoordinates ==
    wlog.via # "never"
      => IF LATITUDE = NONE /\ LONGITUDE = NONE
         THEN /\ wlog.requests # <<>>
              /\ wlog.requests[1] = "jsonip.com"
              /\ Len(wlog.requests) >= 2
                   => wlog.requests[2] = "api.freegeoip.app"
         ELSE /\ wlog.requests = <<"api.openweathermap.org">>
              /\ wlog.coords =
                   <<IF LATITUDE = NONE THEN "None" ELSE LATITUDE,
                     IF LONGITUDE = NONE THEN "None" ELSE LONGITUDE>>

\* A poll with the latitude unset and the longitude set has asked the
\* weather provider alone.
C18_Witness ==
    /\ LATITUDE = NONE
    /\ LONGITUDE # NONE
    /\ wlog.via = "timer"
    /\ wlog.exc = "none"
    /\ wlog.requests = <<"api.openweathermap.org">>

====
